---- MODULE Spec2Model ----
(***************************************************************************)
(* Model of the tryless Result library (package/src): the Ok / Err value   *)
(* classes, the ok / err constructors, the extraction and combinator       *)
(* methods, the UnwrapError raised by a failed extraction and the resultfy  *)
(* adapter over the host's promises.                                       *)
(*                                                                         *)
(* A JavaScript value is a record [k, s, n]: k is its typeof-like kind, s  *)
(* the text of a string (a sequence of segments, <<>> being the empty      *)
(* string) and n the address of an object in the heap.  An object is a     *)
(* record [cls, props]: its class and its own properties.                  *)
(***************************************************************************)
EXTENDS Integers, Sequences, FiniteSets, TLC

VARIABLES heap, born, hasCapture, last, promises, jobs

vars == <<heap, born, hasCapture, last, promises, jobs>>

\* ---------------------------------------------------------------- bounds
MaxHeap == 2
MaxPromises == 2
\* the results one run of the adapter allocates
MaxResults == 1
\* the stages of an andThen chain
MaxStages == 2

\* ---------------------------------------------------------------- values
Undefined == [k |-> "undefined", s |-> <<>>, n |-> 0]
Null == [k |-> "null", s |-> <<>>, n |-> 0]
Str(x) == [k |-> "string", s |-> <<x>>, n |-> 0]
Text(t) == [k |-> "string", s |-> t, n |-> 0]
EmptyStr == [k |-> "string", s |-> <<>>, n |-> 0]
Bool(b) == [k |-> "boolean", s |-> <<>>, n |-> IF b THEN 1 ELSE 0]
Ref(a) == [k |-> "object", s |-> <<>>, n |-> a]

\* JavaScript truthiness, as used by the || operator.
Truthy(v) ==
  CASE v.k = "undefined" -> FALSE
    [] v.k = "null" -> FALSE
    [] v.k = "string" -> v.s # <<>>
    [] v.k = "boolean" -> v.n = 1
    [] OTHER -> TRUE

\* a || b
OrElseValue(a, b) == IF Truthy(a) THEN a ELSE b

\* String(v) as a template literal interpolates it.
ToText(v) ==
  CASE v.k = "undefined" -> <<"undefined">>
    [] v.k = "null" -> <<"null">>
    [] v.k = "string" -> v.s
    [] v.k = "boolean" -> IF v.n = 1 THEN <<"true">> ELSE <<"false">>
    [] OTHER -> <<"[object Object]">>

\* The i-th actual parameter of a call; a missing one reads undefined.
Param(args, i) == IF i <= Len(args) THEN args[i] ELSE Undefined

\* A parameter with a default value: the default applies to undefined.
DefaultParam(args, i, dflt) ==
  IF Param(args, i) = Undefined THEN dflt ELSE Param(args, i)

\* ------------------------------------------------------------- constants
UnknownError == Str("unknown")
UnwrapErrorName == Str("unwrap")

\* --------------------------------------------------------------- objects
\* name in obj
In(name, obj) == name \in DOMAIN obj.props

\* obj.name
Get(obj, name) == IF In(name, obj) THEN obj.props[name] ELSE Undefined

NoObject == [cls |-> "none", props |-> [none |-> Undefined]]

\* --------------------------------------------------------- stack capture
\* A call stack is the sequence of the active functions' names, innermost
\* first.  Error.captureStackTrace(obj, caller) records the frames below
\* the topmost frame of caller, under the header line "Error".
RECURSIVE FramesBelow(_, _)
FramesBelow(stk, caller) ==
  IF stk = <<>> THEN <<>>
  ELSE IF Head(stk) = caller THEN Tail(stk)
  ELSE FramesBelow(Tail(stk), caller)

captureStackTrace(stk, caller) ==
  LET frames == FramesBelow(stk, caller)
  IN IF frames = <<>> THEN Text(<<"Error">>)
     ELSE Text(<<"Error\n">> \o frames)

\* ------------------------------------------------------ outcomes of calls
\* What a call does: it returns a value or throws an object, it may have
\* invoked callbacks (calls) and it leaves the heap as h.
\* made lists the constructor calls behind the objects the call added.
Return(v, h, calls) ==
  [kind |-> "return", value |-> v, thrown |-> NoObject, calls |-> calls,
   heap |-> h, made |-> <<>>]
Throw(e, h, calls) ==
  [kind |-> "throw", value |-> Undefined, thrown |-> e, calls |-> calls,
   heap |-> h, made |-> <<>>]

\* ---------------------------------------------------------- constructors
\* new Ok(data)
OkNew(data) == [cls |-> "Ok", props |-> [success |-> Bool(TRUE), data |-> data]]

\* Variant: the constructor passes true to the base class.
ErrNew_SuccessTrue(error, reason, caller, stk) ==
  [cls |-> "Err",
   props |-> [success |-> Bool(TRUE), error |-> error, reason |-> reason]]

\* new Err(error, reason, caller), run with the call stack stk
ErrNew(error, reason, caller, stk) ==
  IF hasCapture
  THEN [cls |-> "Err",
        props |-> [success |-> Bool(FALSE),
                   stack |-> captureStackTrace(<<"Err">> \o stk, caller),
                   error |-> error, reason |-> reason]]
  ELSE [cls |-> "Err",
        props |-> [success |-> Bool(FALSE), error |-> error, reason |-> reason]]

\* Variant: ok(data) keeps data || undefined.
ok_Falsy(h, args) ==
  [Return(Ref(Len(h) + 1),
          Append(h, OkNew(OrElseValue(Param(args, 1), Undefined))), <<>>)
     EXCEPT !.made = <<[fn |-> "ok", args |-> args]>>]

\* ok(data = undefined)
ok(h, args) ==
  LET data == DefaultParam(args, 1, Undefined)
  IN [Return(Ref(Len(h) + 1), Append(h, OkNew(data)), <<>>)
        EXCEPT !.made = <<[fn |-> "ok", args |-> args]>>]

\* Variant: err without the default label.
err_NoDefault(h, args, stk) ==
  [Return(Ref(Len(h) + 1),
          Append(h, ErrNew(Param(args, 1), Param(args, 2), "err", <<"err">> \o stk)),
          <<>>)
     EXCEPT !.made = <<[fn |-> "err", args |-> args]>>]

\* err(error = UnknownError, reason = undefined)
err(h, args, stk) ==
  LET error == DefaultParam(args, 1, UnknownError)
      reason == DefaultParam(args, 2, Undefined)
  IN [Return(Ref(Len(h) + 1),
             Append(h, ErrNew(error, reason, "err", <<"err">> \o stk)),
             <<>>)
        EXCEPT !.made = <<[fn |-> "err", args |-> args]>>]

\* ----------------------------------------------------------- UnwrapError
\* text.replace(pat, rep): the first occurrence of pat is replaced.
RECURSIVE Replace(_, _, _)
Replace(text, pat, rep) ==
  IF text = <<>> THEN <<>>
  ELSE IF Head(text) = pat THEN rep \o Tail(text)
  ELSE <<Head(text)>> \o Replace(Tail(text), pat, rep)

\* stack?.replace(pat, rep), interpolated into a string
ReplacedOrUndefined(stack, pat, rep) ==
  IF stack.k = "string" THEN Replace(stack.s, pat, rep) ELSE ToText(Undefined)

\* Variant: the call-site stack is captured below the constructor, so the
\* failing method's own frame stays in it.
UnwrapErrorNew_OwnFrame(result, caller, customMessage, customError, stk) ==
  LET base == OrElseValue(customMessage, Str("Could not unwrap result"))
      error == OrElseValue(customError,
                 IF In("error", result) THEN Get(result, "error")
                 ELSE UnwrapErrorName)
      objStack == IF hasCapture
                  THEN captureStackTrace(<<"UnwrapError">> \o stk, "UnwrapError")
                  ELSE Undefined
      m1 == base.s \o <<" '">> \o ToText(error) \o <<"'">>
      m2 == m1 \o ReplacedOrUndefined(objStack, "Error\n", <<"\n">>)
      m3 == IF In("stack", result)
            THEN m2 \o <<" ">> \o
                 ReplacedOrUndefined(Get(result, "stack"), "Error\n",
                                     <<"\n\nError created at\n">>)
            ELSE m2
  IN IF In("reason", result)
     THEN [cls |-> "UnwrapError",
           props |-> [message |-> Text(m3), stack |-> objStack, error |-> error,
                      reason |-> Get(result, "reason"), name |-> Str("UnwrapError")]]
     ELSE [cls |-> "UnwrapError",
           props |-> [message |-> Text(m3), stack |-> objStack, error |-> error,
                      name |-> Str("UnwrapError")]]

\* new UnwrapError(result, caller, customMessage, customError), run with the
\* call stack stk of the method that raises it.
UnwrapErrorNew(result, caller, customMessage, customError, stk) ==
  LET base == OrElseValue(customMessage, Str("Could not unwrap result"))
      error == OrElseValue(customError,
                 IF In("error", result) THEN Get(result, "error")
                 ELSE UnwrapErrorName)
      objStack == IF hasCapture
                  THEN captureStackTrace(<<"UnwrapError">> \o stk, caller)
                  ELSE Undefined
      m1 == base.s \o <<" '">> \o ToText(error) \o <<"'">>
      m2 == m1 \o ReplacedOrUndefined(objStack, "Error\n", <<"\n">>)
      m3 == IF In("stack", result)
            THEN m2 \o <<" ">> \o
                 ReplacedOrUndefined(Get(result, "stack"), "Error\n",
                                     <<"\n\nError created at\n">>)
            ELSE m2
  IN IF In("reason", result)
     THEN [cls |-> "UnwrapError",
           props |-> [message |-> Text(m3), stack |-> objStack, error |-> error,
                      reason |-> Get(result, "reason"), name |-> Str("UnwrapError")]]
     ELSE [cls |-> "UnwrapError",
           props |-> [message |-> Text(m3), stack |-> objStack, error |-> error,
                      name |-> Str("UnwrapError")]]

\* ------------------------------------------------------------ Result base
\* Result.isOk(): this.success === true
Result_isOk(h, this) == Return(Bool(Get(h[this], "success") = Bool(TRUE)), h, <<>>)

\* Result.isErr(): this.success === false
Result_isErr(h, this) == Return(Bool(Get(h[this], "success") = Bool(FALSE)), h, <<>>)

\* ------------------------------------------------- Ok / Err: unwrap family
\* Variant: unwrap refuses an Ok without payload.
Ok_unwrap_Nullish(h, this, args, stk) ==
  IF Get(h[this], "data") \in {Undefined, Null}
  THEN Throw(UnwrapErrorNew(h[this], "unwrap", Str("Could not unwrap error"),
                            Param(args, 1), <<"unwrap">> \o stk), h, <<>>)
  ELSE Return(Get(h[this], "data"), h, <<>>)

Ok_unwrap(h, this, args, stk) == Return(Get(h[this], "data"), h, <<>>)

\* Variant: unwrap stores the custom label into the Err before throwing.
Err_unwrap_Relabel(h, this, args, stk) ==
  Throw(UnwrapErrorNew(h[this], "unwrap", Str("Could not unwrap error"),
                       Param(args, 1), <<"unwrap">> \o stk),
        [h EXCEPT ![this].props.error = OrElseValue(Param(args, 1), @)], <<>>)

Err_unwrap(h, this, args, stk) ==
  Throw(UnwrapErrorNew(h[this], "unwrap", Str("Could not unwrap error"),
                       Param(args, 1), <<"unwrap">> \o stk), h, <<>>)

\* Variant: this.data ?? defaultValue
Ok_unwrapOr_Nullish(h, this, args, stk) ==
  IF Get(h[this], "data") \in {Undefined, Null}
  THEN Return(Param(args, 1), h, <<>>)
  ELSE Return(Get(h[this], "data"), h, <<>>)

Ok_unwrapOr(h, this, args, stk) == Return(Get(h[this], "data"), h, <<>>)

Err_unwrapOr(h, this, args, stk) == Return(Param(args, 1), h, <<>>)

Ok_unwrapErr(h, this, args, stk) ==
  Throw(UnwrapErrorNew(h[this], "unwrapErr", Str("Could not unwrap error"),
                       Param(args, 1), <<"unwrapErr">> \o stk), h, <<>>)

Err_unwrapErr(h, this, args, stk) == Return(Ref(this), h, <<>>)

Ok_unwrapErrOr(h, this, args, stk) == Return(Param(args, 1), h, <<>>)

Err_unwrapErrOr(h, this, args, stk) == Return(Ref(this), h, <<>>)

\* ------------------------------------------------------- Ok / Err: expect
Ok_expect(h, this, args, stk) ==
  Throw(UnwrapErrorNew(h[this], "expect",
          Text(<<"Expected error ">> \o ToText(Param(args, 1)) \o <<", but got success">>),
          Param(args, 2), <<"expect">> \o stk), h, <<>>)

Err_expect(h, this, args, stk) ==
  IF Get(h[this], "error") = Param(args, 1)
  THEN Return(Ref(this), h, <<>>)
  ELSE Throw(UnwrapErrorNew(h[this], "expect",
          Text(<<"Expected error ">> \o ToText(Param(args, 1)) \o <<", but got error ">>
               \o ToText(Get(h[this], "error"))),
          Param(args, 2), <<"expect">> \o stk), h, <<>>)

\* ------------------------------------------------------- caller callbacks
\* The functions a caller passes to the library, drawn from a few shapes:
\*   const      () => v                 id         r => r
\*   throw      () => { throw Error }   ok         x => ok(x)
\*   err        () => err('B')          unwrap     r => r.unwrap()
\*   unwrapErr  r => r.unwrapErr()      expect     r => r.expect('B')
Fn(kind, v) == [kind |-> kind, v |-> v]

PlainError == [cls |-> "Error", props |-> [message |-> Str("boom")]]
TypeError == [cls |-> "TypeError", props |-> [message |-> Str("not a function")]]

IsResult(h, v) == v.k = "object" /\ v.n \in DOMAIN h /\ h[v.n].cls \in {"Ok", "Err"}

\* The body of callback f applied to arg, run with the call stack stk.
Body(f, arg, h, stk) ==
  CASE f.kind = "const" -> Return(f.v, h, <<>>)
    [] f.kind = "id" -> Return(arg, h, <<>>)
    [] f.kind = "throw" -> Throw(PlainError, h, <<>>)
    [] f.kind = "ok" -> ok(h, <<arg>>)
    [] f.kind = "err" -> err(h, <<Str("B")>>, stk)
    [] f.kind = "unwrap" ->
         IF ~IsResult(h, arg) THEN Throw(TypeError, h, <<>>)
         ELSE IF h[arg.n].cls = "Ok" THEN Ok_unwrap(h, arg.n, <<>>, stk)
         ELSE Err_unwrap(h, arg.n, <<>>, stk)
    [] f.kind = "unwrapErr" ->
         IF ~IsResult(h, arg) THEN Throw(TypeError, h, <<>>)
         ELSE IF h[arg.n].cls = "Ok" THEN Ok_unwrapErr(h, arg.n, <<>>, stk)
         ELSE Err_unwrapErr(h, arg.n, <<>>, stk)
    [] f.kind = "expect" ->
         IF ~IsResult(h, arg) THEN Throw(TypeError, h, <<>>)
         ELSE IF h[arg.n].cls = "Ok" THEN Ok_expect(h, arg.n, <<Str("B")>>, stk)
         ELSE Err_expect(h, arg.n, <<Str("B")>>, stk)

\* f(arg) called from a function whose call stack is stk: the outcome of
\* the body, with the invocation logged in calls.
Apply(f, arg, h, stk) ==
  LET out == Body(f, arg, h, <<"callback">> \o stk)
  IN [out EXCEPT !.calls = <<[fn |-> f, args |-> <<arg>>, kind |-> out.kind,
                              value |-> out.value, thrown |-> out.thrown]>>]

\* -------------------------------------------- Ok / Err: callback extraction
Ok_unwrapOrElse(h, this, args, stk) == Return(Get(h[this], "data"), h, <<>>)

\* Variant: the callback receives the label instead of the Err.
Err_unwrapOrElse_Label(h, this, fn, stk) ==
  Apply(fn, Get(h[this], "error"), h, <<"unwrapOrElse">> \o stk)

Err_unwrapOrElse(h, this, fn, stk) == Apply(fn, Ref(this), h, <<"unwrapOrElse">> \o stk)

\* Variant: the callback receives the payload instead of the Ok.
Ok_unwrapErrOrElse_Data(h, this, fn, stk) ==
  Apply(fn, Get(h[this], "data"), h, <<"unwrapErrOrElse">> \o stk)

Ok_unwrapErrOrElse(h, this, fn, stk) == Apply(fn, Ref(this), h, <<"unwrapErrOrElse">> \o stk)

Err_unwrapErrOrElse(h, this, fn, stk) == Return(Ref(this), h, <<>>)

\* --------------------------------------------------- Ok / Err: combinators
\* Variant: and returns the receiver.
Ok_and_This(h, this, args, stk) == Return(Ref(this), h, <<>>)

Ok_and(h, this, args, stk) == Return(Param(args, 1), h, <<>>)

Err_and(h, this, args, stk) == Return(Ref(this), h, <<>>)

\* Variant: the callback receives the Ok instead of its payload.
Ok_andThen_PassThis(h, this, fn, stk) == Apply(fn, Ref(this), h, <<"andThen">> \o stk)

Ok_andThen(h, this, fn, stk) == Apply(fn, Get(h[this], "data"), h, <<"andThen">> \o stk)

\* Variant: andThen returns a copy of the Err.
Err_andThen_Copy(h, this, fn, stk) ==
  Return(Ref(Len(h) + 1),
         Append(h, ErrNew(Get(h[this], "error"), Get(h[this], "reason"),
                          "andThen", <<"andThen">> \o stk)), <<>>)

Err_andThen(h, this, fn, stk) == Return(Ref(this), h, <<>>)

Ok_or(h, this, args, stk) == Return(Ref(this), h, <<>>)

Err_or(h, this, args, stk) == Return(Param(args, 1), h, <<>>)

Ok_orElse(h, this, fn, stk) == Return(Ref(this), h, <<>>)

\* Variant: the callback receives the label instead of the Err.
Err_orElse_Label(h, this, fn, stk) ==
  Apply(fn, Get(h[this], "error"), h, <<"orElse">> \o stk)

Err_orElse(h, this, fn, stk) == Apply(fn, Ref(this), h, <<"orElse">> \o stk)

\* Variant: map catches what the callback throws and returns the Ok.
Ok_map_Catch(h, this, fn, stk) ==
  LET out == Apply(fn, Ref(this), h, <<"map">> \o stk)
  IN IF out.kind = "throw" THEN Return(Ref(this), h, out.calls) ELSE out

Ok_map(h, this, fn, stk) == Apply(fn, Ref(this), h, <<"map">> \o stk)

\* Variant: map skips the callback on an Err.
Err_map_Skip(h, this, fn, stk) == Return(Ref(this), h, <<>>)

Err_map(h, this, fn, stk) == Apply(fn, Ref(this), h, <<"map">> \o stk)

\* `Success<${this.data}>`
Ok_toString(h, this) ==
  Return(Text(<<"Success<">> \o ToText(Get(h[this], "data")) \o <<">">>), h, <<>>)

\* `${this.error}: ${this.reason} - ${this.stack}`
Err_toString(h, this) ==
  Return(Text(ToText(Get(h[this], "error")) \o <<": ">> \o ToText(Get(h[this], "reason"))
              \o <<" - ">> \o ToText(Get(h[this], "stack"))), h, <<>>)

\* ----------------------------------------------------------------- inputs
Sites == {"main"}
ErrSites == {"createError"}
Prims == {Undefined, Null, Str("x")}
Vals(h) == Prims \cup {Ref(a) : a \in DOMAIN h}
Labels == {Str("A"), Str("B")}
\* an optional custom label: omitted, a label, or the empty string
CustomArgs == {<<>>, <<Str("C")>>, <<EmptyStr>>}
OkArgs(h) == {<<>>} \cup {<<v>> : v \in Vals(h)}
ErrArgs(h) ==
  {<<>>, <<Str("A")>>, <<Str("B"), Str("x")>>, <<Undefined, Str("x")>>}
NoFn == Fn("none", Undefined)
\* callbacks returning any value, and callbacks returning a Result
Fns(h) ==
  {Fn("const", v) : v \in {Str("x")} \cup {Ref(a) : a \in DOMAIN h}}
    \cup {Fn(kd, Undefined) : kd \in {"id", "throw", "unwrap", "unwrapErr"}}
ResultFns(h) ==
  {Fn("const", Ref(a)) : a \in DOMAIN h}
    \cup {Fn(kd, Undefined) : kd \in {"throw", "ok", "err", "unwrap"}}
FieldNames == {"success", "data", "error", "reason"}

IsOkObj(a) == heap[a].cls = "Ok"

\* ------------------------------------------------------------ the program
\* The caller is sequential: it makes one call, observes its outcome in
\* last, and goes on to its next call (Continue).
Idle ==
  [op |-> "idle", this |-> 0, args |-> <<>>, fn |-> NoFn, site |-> "main",
   kind |-> "return", value |-> Undefined, thrown |-> NoObject, calls |-> <<>>]

Init ==
  /\ heap = <<>>
  /\ born = <<>>
  /\ hasCapture \in BOOLEAN
  /\ last = Idle
  /\ promises = <<>>
  /\ jobs = <<>>

\* A caller at site runs op on heap[this] with args / fn; out is what the
\* library did.
Do(op, this, args, fn, site, out) ==
  /\ last = Idle
  /\ Len(out.heap) <= MaxHeap
  /\ heap' = out.heap
  /\ born' = born \o out.made
  /\ last' = [op |-> op, this |-> this, args |-> args, fn |-> fn, site |-> site,
              kind |-> out.kind, value |-> out.value, thrown |-> out.thrown,
              calls |-> out.calls]
  /\ UNCHANGED <<hasCapture, promises, jobs>>

CallOk ==
  \E args \in OkArgs(heap) : Do("ok", 0, args, NoFn, "main", ok(heap, args))

CallErr ==
  \E args \in ErrArgs(heap), site \in ErrSites :
    Do("err", 0, args, NoFn, site, err(heap, args, <<site>>))

Unwrap ==
  \E a \in DOMAIN heap, args \in CustomArgs, site \in Sites :
    Do("unwrap", a, args, NoFn, site,
       IF IsOkObj(a) THEN Ok_unwrap(heap, a, args, <<site>>)
       ELSE Err_unwrap(heap, a, args, <<site>>))

UnwrapOr ==
  \E a \in DOMAIN heap, d \in Vals(heap) :
    Do("unwrapOr", a, <<d>>, NoFn, "main",
       IF IsOkObj(a) THEN Ok_unwrapOr(heap, a, <<d>>, <<"main">>)
       ELSE Err_unwrapOr(heap, a, <<d>>, <<"main">>))

UnwrapOrElse ==
  \E a \in DOMAIN heap, fn \in Fns(heap) :
    Do("unwrapOrElse", a, <<>>, fn, "main",
       IF IsOkObj(a) THEN Ok_unwrapOrElse(heap, a, fn, <<"main">>)
       ELSE Err_unwrapOrElse(heap, a, fn, <<"main">>))

UnwrapErr ==
  \E a \in DOMAIN heap, args \in CustomArgs, site \in Sites :
    Do("unwrapErr", a, args, NoFn, site,
       IF IsOkObj(a) THEN Ok_unwrapErr(heap, a, args, <<site>>)
       ELSE Err_unwrapErr(heap, a, args, <<site>>))

UnwrapErrOr ==
  \E a \in DOMAIN heap, d \in Vals(heap) :
    Do("unwrapErrOr", a, <<d>>, NoFn, "main",
       IF IsOkObj(a) THEN Ok_unwrapErrOr(heap, a, <<d>>, <<"main">>)
       ELSE Err_unwrapErrOr(heap, a, <<d>>, <<"main">>))

UnwrapErrOrElse ==
  \E a \in DOMAIN heap, fn \in Fns(heap) :
    Do("unwrapErrOrElse", a, <<>>, fn, "main",
       IF IsOkObj(a) THEN Ok_unwrapErrOrElse(heap, a, fn, <<"main">>)
       ELSE Err_unwrapErrOrElse(heap, a, fn, <<"main">>))

Expect ==
  \E a \in DOMAIN heap, e \in Labels, c \in CustomArgs, site \in Sites :
    Do("expect", a, <<e>> \o c, NoFn, site,
       IF IsOkObj(a) THEN Ok_expect(heap, a, <<e>> \o c, <<site>>)
       ELSE Err_expect(heap, a, <<e>> \o c, <<site>>))

And ==
  \E a \in DOMAIN heap, b \in DOMAIN heap :
    Do("and", a, <<Ref(b)>>, NoFn, "main",
       IF IsOkObj(a) THEN Ok_and(heap, a, <<Ref(b)>>, <<"main">>)
       ELSE Err_and(heap, a, <<Ref(b)>>, <<"main">>))

AndThen ==
  \E a \in DOMAIN heap, fn \in ResultFns(heap) :
    Do("andThen", a, <<>>, fn, "main",
       IF IsOkObj(a) THEN Ok_andThen(heap, a, fn, <<"main">>)
       ELSE Err_andThen(heap, a, fn, <<"main">>))

Or ==
  \E a \in DOMAIN heap, b \in DOMAIN heap :
    Do("or", a, <<Ref(b)>>, NoFn, "main",
       IF IsOkObj(a) THEN Ok_or(heap, a, <<Ref(b)>>, <<"main">>)
       ELSE Err_or(heap, a, <<Ref(b)>>, <<"main">>))

OrElse ==
  \E a \in DOMAIN heap, fn \in ResultFns(heap) :
    Do("orElse", a, <<>>, fn, "main",
       IF IsOkObj(a) THEN Ok_orElse(heap, a, fn, <<"main">>)
       ELSE Err_orElse(heap, a, fn, <<"main">>))

Map ==
  \E a \in DOMAIN heap, fn \in Fns(heap) :
    Do("map", a, <<>>, fn, "main",
       IF IsOkObj(a) THEN Ok_map(heap, a, fn, <<"main">>)
       ELSE Err_map(heap, a, fn, <<"main">>))

IsOk == \E a \in DOMAIN heap : Do("isOk", a, <<>>, NoFn, "main", Result_isOk(heap, a))

IsErr == \E a \in DOMAIN heap : Do("isErr", a, <<>>, NoFn, "main", Result_isErr(heap, a))

CallToString ==
  \E a \in DOMAIN heap :
    Do("toString", a, <<>>, NoFn, "main",
       IF IsOkObj(a) THEN Ok_toString(heap, a) ELSE Err_toString(heap, a))

\* result.success, result.data, result.error, result.reason read by a caller
ReadField ==
  \E a \in DOMAIN heap, name \in FieldNames :
    Do(name, a, <<>>, NoFn, "main", Return(Get(heap[a], name), heap, <<>>))

Continue ==
  /\ last # Idle
  /\ last' = Idle
  /\ UNCHANGED <<heap, born, hasCapture, promises, jobs>>

Next ==
  \/ Continue
  \/ CallOk \/ CallErr
  \/ Unwrap \/ UnwrapOr \/ UnwrapOrElse
  \/ UnwrapErr \/ UnwrapErrOr \/ UnwrapErrOrElse
  \/ Expect
  \/ And \/ AndThen \/ Or \/ OrElse \/ Map
  \/ IsOk \/ IsErr \/ CallToString \/ ReadField

Spec == Init /\ [][Next]_vars

\* =============================================================== adapter
\* Values of the adapter's world that live outside the heap of Results:
\* host promises, the wrapper functions resultfy returns, the caller's
\* functions, an Error instance and an object whose then is not callable.
Prom(i) == [k |-> "promise", s |-> <<>>, n |-> i]
\* A wrapper is a closure over fn and error; given recalls the label
\* arguments of the resultfy call that made it.
Wrapper(fn, error, given) ==
  [k |-> "function", s |-> <<"wrapper">>, n |-> 0,
   fn |-> fn, error |-> error, given |-> given]
UserFn(kind) == [k |-> "function", s |-> <<kind>>, n |-> 0]
ErrorObj == [k |-> "object", s |-> <<"Error: boom">>, n |-> 0]
OddThen == [k |-> "object", s |-> <<"{ then: 1 }">>, n |-> 0]

\* typeof v
TypeOf(v) ==
  CASE v.k \in {"null", "object", "promise"} -> "object"
    [] OTHER -> v.k

\* typeof v.then, for a v that is neither null nor undefined
TypeOfThen(v) ==
  CASE v.k = "promise" -> "function"
    [] v = OddThen -> "number"
    [] OTHER -> "undefined"

\* isThenable(v)
isThenable(v) ==
  /\ v # Null
  /\ TypeOf(v) \in {"object", "function"}
  /\ TypeOfThen(v) = "function"

\* a ?? b
Coalesce(a, b) == IF a.k \in {"undefined", "null"} THEN b ELSE a

\* ------------------------------------------------------- host promises
\* A promise is [state, value, reactions, made]; made remembers which call
\* created it.  A reaction or job names the handler to run, its argument and
\* the derived promise the handler's outcome settles.
Handler(kind, error) == [kind |-> kind, error |-> error]

NewPromiseRec(made) ==
  [state |-> "pending", value |-> Undefined, reactions |-> <<>>, made |-> made]

UserMade == [by |-> "user", src |-> 0, given |-> <<>>]

\* The jobs that settling a promise with (state, v) schedules.
JobsFor(reactions, state, v) ==
  [i \in 1..Len(reactions) |->
     [handler |-> IF state = "fulfilled" THEN reactions[i].onFulfilled
                  ELSE reactions[i].onRejected,
      state |-> state, arg |-> v, derived |-> reactions[i].derived]]

\* Settling a pending promise: its state and value are fixed and its
\* reactions become jobs, in registration order.
SettlePromise(ps, js, i, state, v) ==
  [promises |-> [ps EXCEPT ![i].state = state, ![i].value = v, ![i].reactions = <<>>],
   jobs |-> js \o JobsFor(ps[i].reactions, state, v)]

\* Variant: then on a pending promise forgets the reaction.
PromiseThen_Forgets(ps, js, i, onFulfilled, onRejected, made) ==
  LET d == Len(ps) + 1
      reaction == [onFulfilled |-> onFulfilled, onRejected |-> onRejected, derived |-> d]
  IN IF ps[i].state = "pending"
     THEN [promises |-> Append(ps, NewPromiseRec(made)), jobs |-> js, value |-> Prom(d)]
     ELSE [promises |-> Append(ps, NewPromiseRec(made)),
           jobs |-> js \o JobsFor(<<reaction>>, ps[i].state, ps[i].value),
           value |-> Prom(d)]

\* p.then(onFulfilled, onRejected): a new derived promise; the reaction is
\* registered on a pending p and scheduled at once on a settled p.
PromiseThen(ps, js, i, onFulfilled, onRejected, made) ==
  LET d == Len(ps) + 1
      reaction == [onFulfilled |-> onFulfilled, onRejected |-> onRejected, derived |-> d]
  IN IF ps[i].state = "pending"
     THEN [promises |-> Append([ps EXCEPT ![i].reactions = Append(@, reaction)],
                               NewPromiseRec(made)),
           jobs |-> js, value |-> Prom(d)]
     ELSE [promises |-> Append(ps, NewPromiseRec(made)),
           jobs |-> js \o JobsFor(<<reaction>>, ps[i].state, ps[i].value),
           value |-> Prom(d)]

\* ------------------------------------------------------------- resultfy
\* Variant: the rejection handler forgets the label.
rejectWrapper_Unlabelled(h, error, reason, stk) ==
  [Return(Ref(Len(h) + 1),
          Append(h, ErrNew(UnknownError, reason, "rejectWrapper",
                           <<"rejectWrapper">> \o stk)),
          <<>>)
     EXCEPT !.made = <<[fn |-> "Err", args |-> <<UnknownError, reason>>]>>]

\* rejectWrapper(reason) of errReject(error), called from a function whose
\* call stack is stk (empty for a promise job)
rejectWrapper(h, error, reason, stk) ==
  [Return(Ref(Len(h) + 1),
          Append(h, ErrNew(error, reason, "rejectWrapper", <<"rejectWrapper">> \o stk)),
          <<>>)
     EXCEPT !.made = <<[fn |-> "Err", args |-> <<error, reason>>]>>]

\* Variant: the rejection handler throws instead of returning an Err.
wrapperReject_Rethrow(h, error, reason) == Throw(PlainError, h, <<>>)

\* (reason) => new Err(error, reason, wrapper), run as a promise job
wrapperReject(h, error, reason) ==
  [Return(Ref(Len(h) + 1),
          Append(h, ErrNew(error, reason, "wrapper", <<"anonymous">>)), <<>>)
     EXCEPT !.made = <<[fn |-> "Err", args |-> <<error, reason>>]>>]

\* The outcome of a call of the adapter: that of a call, and the promises
\* and jobs it leaves.
Adapted(out, ps, js) == [out |-> out, promises |-> ps, jobs |-> js]

\* Variant: resultfy without the typeof test.
resultfy_NoTypeCheck(args, h, ps, js) ==
  LET fn == Param(args, 1)
      error == Coalesce(Param(args, 2), UnknownError)
  IN IF isThenable(fn)
     THEN LET t == PromiseThen(ps, js, fn.n, Handler("ok", Undefined),
                               Handler("errReject", error),
                               [by |-> "resultfy", src |-> fn.n, given |-> Tail(args)])
          IN Adapted(Return(t.value, h, <<>>), t.promises, t.jobs)
     ELSE Adapted(Return(Wrapper(fn, error, Tail(args)), h, <<>>), ps, js)

\* resultfy(fn, fnError)
resultfy(args, h, ps, js) ==
  LET fn == Param(args, 1)
      error == Coalesce(Param(args, 2), UnknownError)
  IN IF isThenable(fn)
     THEN LET t == PromiseThen(ps, js, fn.n, Handler("ok", Undefined),
                               Handler("errReject", error),
                               [by |-> "resultfy", src |-> fn.n, given |-> Tail(args)])
          IN Adapted(Return(t.value, h, <<>>), t.promises, t.jobs)
     ELSE IF TypeOf(fn) # "function"
     THEN Adapted(Throw([cls |-> "Error",
                         props |-> [message |-> Str("fn must be a function or a promise")]],
                        h, <<>>), ps, js)
     ELSE Adapted(Return(Wrapper(fn, error, Tail(args)), h, <<>>), ps, js)

\* A thrown object caught and carried as a value.
Caught(e) == [k |-> "object", s |-> <<"caught">>, n |-> 0, obj |-> e]

\* The caller's functions, by shape:
\*   first       (a) => a               throwError  () => { throw error }
\*   unwrap      (r) => r.unwrap()      unwrapErr   (r) => r.unwrapErr()
\*   expect      (r) => r.expect('B')
\* What the call fn(...args) does with the heap h, called from a function
\* whose call stack is stk: it returns a value or throws one.
UserBody(fn, args, h, stk) ==
  LET r == Param(args, 1)
      out == CASE fn.s = <<"unwrap">> ->
                    IF h[r.n].cls = "Ok" THEN Ok_unwrap(h, r.n, <<>>, <<"fn">> \o stk)
                    ELSE Err_unwrap(h, r.n, <<>>, <<"fn">> \o stk)
               [] fn.s = <<"unwrapErr">> ->
                    IF h[r.n].cls = "Ok" THEN Ok_unwrapErr(h, r.n, <<>>, <<"fn">> \o stk)
                    ELSE Err_unwrapErr(h, r.n, <<>>, <<"fn">> \o stk)
               [] OTHER ->
                    IF h[r.n].cls = "Ok"
                    THEN Ok_expect(h, r.n, <<Str("B")>>, <<"fn">> \o stk)
                    ELSE Err_expect(h, r.n, <<Str("B")>>, <<"fn">> \o stk)
  IN IF fn.s = <<"first">> THEN [kind |-> "return", value |-> r]
     ELSE IF fn.s = <<"throwError">> THEN [kind |-> "throw", value |-> ErrorObj]
     ELSE IF ~IsResult(h, r) THEN [kind |-> "throw", value |-> Caught(TypeError)]
     ELSE IF out.kind = "throw" THEN [kind |-> "throw", value |-> Caught(out.thrown)]
     ELSE [kind |-> "return", value |-> out.value]

UserCall(fn, args, h, stk) ==
  LET r == UserBody(fn, args, h, stk)
  IN <<[fn |-> fn, args |-> args, kind |-> r.kind, value |-> r.value]>>

\* Variant: the wrapper calls fn without the arguments.
wrapper_DropArgs(w, args, h, ps, js, stk) ==
  LET fn == w.fn
      error == w.error
      result == UserBody(fn, <<>>, h, <<"wrapper">> \o stk)
      calls == UserCall(fn, <<>>, h, <<"wrapper">> \o stk)
  IN IF result.kind = "throw"
     THEN Adapted([Return(Ref(Len(h) + 1),
                          Append(h, ErrNew(error, result.value, "wrapper",
                                           <<"wrapper">> \o stk)), calls)
                     EXCEPT !.made = <<[fn |-> "Err", args |-> <<error, result.value>>]>>],
                  ps, js)
     ELSE IF isThenable(result.value)
     THEN LET t == PromiseThen(ps, js, result.value.n, Handler("ok", Undefined),
                               Handler("wrapperReject", error),
                               [by |-> "wrapper", src |-> result.value.n,
                                given |-> w.given])
          IN Adapted(Return(t.value, h, calls), t.promises, t.jobs)
     ELSE Adapted([ok(h, <<result.value>>) EXCEPT !.calls = calls], ps, js)

\* w(...args) for a wrapper w made by resultfy, called from a function
\* whose call stack is stk
wrapper(w, args, h, ps, js, stk) ==
  LET fn == w.fn
      error == w.error
      result == UserBody(fn, args, h, <<"wrapper">> \o stk)
      calls == UserCall(fn, args, h, <<"wrapper">> \o stk)
  IN IF result.kind = "throw"
     THEN Adapted([Return(Ref(Len(h) + 1),
                          Append(h, ErrNew(error, result.value, "wrapper",
                                           <<"wrapper">> \o stk)), calls)
                     EXCEPT !.made = <<[fn |-> "Err", args |-> <<error, result.value>>]>>],
                  ps, js)
     ELSE IF isThenable(result.value)
     THEN LET t == PromiseThen(ps, js, result.value.n, Handler("ok", Undefined),
                               Handler("wrapperReject", error),
                               [by |-> "wrapper", src |-> result.value.n,
                                given |-> w.given])
          IN Adapted(Return(t.value, h, calls), t.promises, t.jobs)
     ELSE Adapted([ok(h, <<result.value>>) EXCEPT !.calls = calls], ps, js)

RunHandler_Flatten(handler, arg, h) ==
  CASE handler.kind = "ok" ->
         IF IsResult(h, arg) THEN Return(arg, h, <<>>) ELSE ok(h, <<arg>>)
    [] handler.kind = "errReject" -> rejectWrapper(h, handler.error, arg, <<>>)
    [] handler.kind = "wrapperReject" -> wrapperReject(h, handler.error, arg)

\* The handler of a promise job applied to the settled value.
RunHandler(handler, arg, h) ==
  CASE handler.kind = "ok" -> ok(h, <<arg>>)
    [] handler.kind = "errReject" -> rejectWrapper(h, handler.error, arg, <<>>)
    [] handler.kind = "wrapperReject" -> wrapperReject(h, handler.error, arg)

\* ------------------------------------------------------ adapter: inputs
FulfilVals == {Str("x")}
RejectVals == {ErrorObj}
LabelArgs == {<<>>, <<Str("L")>>, <<EmptyStr>>}
NotCallable == {Null, Str("x"), OddThen}
UserFns == {UserFn("first"), UserFn("throwError")}
ResultfyInputs(ps) == {Prom(i) : i \in DOMAIN ps} \cup UserFns \cup NotCallable
WrapperArgs(ps) ==
  {<<>>, <<Null>>, <<Str("x"), Str("y")>>} \cup {<<Prom(i)>> : i \in DOMAIN ps}

IsWrapper(v) == v.k = "function" /\ v.s = <<"wrapper">>

\* ----------------------------------------------------- adapter: program
\* new Promise(...) by the caller, pending
NewPromise ==
  /\ last = Idle
  /\ Len(promises) < MaxPromises
  /\ promises' = Append(promises, NewPromiseRec(UserMade))
  /\ UNCHANGED <<heap, born, hasCapture, last, jobs>>

\* The caller's promise i is settled with v.
SettleWith(i, state, v) ==
  /\ last = Idle
  /\ promises[i].made.by = "user"
  /\ promises[i].state = "pending"
  /\ LET r == SettlePromise(promises, jobs, i, state, v)
     IN promises' = r.promises /\ jobs' = r.jobs
  /\ UNCHANGED <<heap, born, hasCapture, last>>

Fulfil == \E i \in DOMAIN promises, v \in FulfilVals : SettleWith(i, "fulfilled", v)

Reject == \E i \in DOMAIN promises, v \in RejectVals : SettleWith(i, "rejected", v)

\* The derived promises still pending: each will hold a Result once its
\* job has run, and a run keeps room for it.
Unsettled(ps) ==
  Cardinality({i \in DOMAIN ps : ps[i].made.by # "user" /\ ps[i].state = "pending"})

\* A caller at site calls op of the adapter (w is the wrapper called, if
\* any); res is what the adapter did.
DoAdapter(room, op, w, args, site, res) ==
  /\ Len(res.out.heap) + Unsettled(res.promises) <= room
  /\ Len(res.promises) <= MaxPromises
  /\ heap' = res.out.heap
  /\ born' = born \o res.out.made
  /\ promises' = res.promises
  /\ jobs' = res.jobs
  /\ last' = [op |-> op, this |-> 0, args |-> args, fn |-> w, site |-> site,
              kind |-> res.out.kind, value |-> res.out.value,
              thrown |-> res.out.thrown, calls |-> res.out.calls]
  /\ UNCHANGED hasCapture

ResultfyCall ==
  \E fn \in ResultfyInputs(promises), label \in LabelArgs :
    /\ last = Idle
    /\ DoAdapter(MaxResults, "resultfy", NoFn, <<fn>> \o label, "main",
                 resultfy(<<fn>> \o label, heap, promises, jobs))

\* The caller calls the wrapper it has just been given.
WrapperCall ==
  \E args \in WrapperArgs(promises) :
    /\ last.op = "resultfy"
    /\ last.kind = "return"
    /\ IsWrapper(last.value)
    /\ DoAdapter(MaxResults, "wrapper", last.value, args, "main",
                 wrapper(last.value, args, heap, promises, jobs, <<"main">>))

\* The oldest promise job runs: its handler's outcome settles the derived
\* promise, fulfilled with what the handler returned or rejected with what
\* it threw.
RunJob ==
  /\ last = Idle
  /\ jobs # <<>>
  /\ LET job == Head(jobs)
         out == RunHandler(job.handler, job.arg, heap)
         r == IF out.kind = "return"
              THEN SettlePromise(promises, Tail(jobs), job.derived, "fulfilled", out.value)
              ELSE SettlePromise(promises, Tail(jobs), job.derived, "rejected", ErrorObj)
     IN /\ heap' = out.heap
        /\ born' = born \o out.made
        /\ promises' = r.promises
        /\ jobs' = r.jobs
  /\ UNCHANGED <<hasCapture, last>>

NextAdapter ==
  \/ Continue
  \/ NewPromise \/ Fulfil \/ Reject
  \/ ResultfyCall \/ WrapperCall
  \/ RunJob

SpecAdapter == Init /\ [][NextAdapter]_vars

\* The host runs the promise jobs whenever the call stack is empty, and it
\* is empty after each call of the caller has completed.
SpecAdapterFair ==
  Init /\ [][NextAdapter]_vars /\ SF_vars(RunJob) /\ WF_vars(Continue)

\* ====================================================== curried handlers
\* errReject(error): the closure rejectWrapper over error; given recalls
\* the arguments of the errReject call.
errReject(args) ==
  [k |-> "function", s |-> <<"rejectWrapper">>, n |-> 0,
   error |-> Param(args, 1), given |-> args]

\* okFulfilled(map): the closure (data) => ok(map(data))
okFulfilled(map) ==
  [k |-> "function", s |-> <<"okFulfilled">>, n |-> 0, map |-> map]

\* Variant: the handler wraps the data without mapping it.
fulfilled_NoMap(h, c, args, stk) == ok(h, <<Param(args, 1)>>)

\* (data) => ok(map(data)) for the closure c of okFulfilled, called from a
\* function whose call stack is stk
fulfilled(h, c, args, stk) ==
  LET out == Apply(c.map, Param(args, 1), h, <<"anonymous">> \o stk)
  IN IF out.kind = "throw" THEN out
     ELSE [ok(out.heap, <<out.value>>)
             EXCEPT !.calls = out.calls,
                    !.made = out.made \o <<[fn |-> "ok", args |-> <<out.value>>]>>]

\* ------------------------------------------------------ curried: inputs
CurryLabels == {Str("L"), EmptyStr}
Reasons == {Undefined, Str("x"), ErrorObj}
MapFns(h) ==
  {Fn("const", Str("x")), Fn("id", Undefined), Fn("throw", Undefined),
   Fn("ok", Undefined)}

\* ----------------------------------------------------- curried: program
\* const onReject = errReject(label)
ErrRejectMake ==
  \E label \in CurryLabels :
    Do("errReject", 0, <<label>>, NoFn, "main",
       Return(errReject(<<label>>), heap, <<>>))

\* const onFulfilled = okFulfilled(map)
OkFulfilledMake ==
  \E map \in MapFns(heap) :
    Do("okFulfilled", 0, <<>>, map, "main", Return(okFulfilled(map), heap, <<>>))

\* The closure the caller holds: the one it has just made or just called.
Held ==
  IF last.op \in {"errReject", "okFulfilled"} THEN last.value ELSE last.fn

\* The caller calls the closure it holds, for the first time or again.
DoHeld(op, args, out) ==
  /\ Len(out.heap) <= MaxHeap
  /\ heap' = out.heap
  /\ born' = born \o out.made
  /\ last' = [op |-> op, this |-> 0, args |-> args, fn |-> Held, site |-> "main",
              kind |-> out.kind, value |-> out.value, thrown |-> out.thrown,
              calls |-> out.calls]
  /\ UNCHANGED <<hasCapture, promises, jobs>>

RejectWrapperCall ==
  \E reason \in Reasons :
    /\ last.op \in {"errReject", "rejectWrapper"}
    /\ DoHeld("rejectWrapper", <<reason>>,
              rejectWrapper(heap, Held.error, reason, <<"main">>))

FulfilledCall ==
  \E data \in Prims :
    /\ last.op \in {"okFulfilled", "fulfilled"}
    /\ DoHeld("fulfilled", <<data>>, fulfilled(heap, Held, <<data>>, <<"main">>))

NextCurried ==
  \/ Continue
  \/ ErrRejectMake \/ RejectWrapperCall
  \/ OkFulfilledMake \/ FulfilledCall

SpecCurried == Init /\ [][NextCurried]_vars

\* ================================================== extraction in callbacks
\* Callbacks and wrapped functions that call an extraction method on the
\* Result they receive.
ExtractFns == {Fn(kd, Undefined) : kd \in {"unwrap", "unwrapErr", "expect"}}
ExtractUserFns == {UserFn(kd) : kd \in {"unwrap", "unwrapErr", "expect"}}
CallbackOps == {"andThen", "orElse", "map", "unwrapOrElse", "unwrapErrOrElse"}

\* result.op(fn) for the methods that take a callback
Method(op, h, this, fn, stk) ==
  IF h[this].cls = "Ok"
  THEN CASE op = "andThen" -> Ok_andThen(h, this, fn, stk)
         [] op = "orElse" -> Ok_orElse(h, this, fn, stk)
         [] op = "map" -> Ok_map(h, this, fn, stk)
         [] op = "unwrapOrElse" -> Ok_unwrapOrElse(h, this, fn, stk)
         [] op = "unwrapErrOrElse" -> Ok_unwrapErrOrElse(h, this, fn, stk)
  ELSE CASE op = "andThen" -> Err_andThen(h, this, fn, stk)
         [] op = "orElse" -> Err_orElse(h, this, fn, stk)
         [] op = "map" -> Err_map(h, this, fn, stk)
         [] op = "unwrapOrElse" -> Err_unwrapOrElse(h, this, fn, stk)
         [] op = "unwrapErrOrElse" -> Err_unwrapErrOrElse(h, this, fn, stk)

\* result.op(r => r.unwrap()) and the like
ThroughCallback ==
  \E a \in DOMAIN heap, op \in CallbackOps, fn \in ExtractFns :
    Do(op, a, <<>>, fn, "main", Method(op, heap, a, fn, <<"main">>))

\* resultfy(r => r.unwrap(), label)(result) and the like
ThroughWrapper ==
  \E a \in DOMAIN heap, fn \in ExtractUserFns, label \in LabelArgs :
    LET w == resultfy(<<fn>> \o label, heap, promises, jobs).out.value
    IN Do("wrapper", 0, <<Ref(a)>>, w, "main",
          wrapper(w, <<Ref(a)>>, heap, promises, jobs, <<"main">>).out)

NextBoundary ==
  \/ Continue
  \/ CallOk \/ CallErr
  \/ ThroughCallback \/ ThroughWrapper

SpecBoundary == Init /\ [][NextBoundary]_vars

\* ======================================================== andThen chains
\* The functions given as stages: x => ok(x), () => err('B'), () => result.
StageFns(h) ==
  {Fn("const", Ref(a)) : a \in DOMAIN h}
    \cup {Fn(kd, Undefined) : kd \in {"ok", "err"}}

\* Variant: andThen calls fn on an Err too.
andThen_Always(h, this, fn, stk) == Ok_andThen(h, this, fn, stk)

\* result.andThen(fn)
andThen(h, this, fn, stk) ==
  IF h[this].cls = "Ok" THEN Ok_andThen(h, this, fn, stk)
  ELSE Err_andThen(h, this, fn, stk)

\* One more .andThen(fn) of the chain r.andThen(f1)...: stages are the
\* functions given so far, log the callback invocations so far, each with
\* the number of its stage; cur is the Result the chain has reached.
DoStage(r, stages, log, cur, fn) ==
  LET out == andThen(heap, cur, fn, <<"main">>)
      n == Len(stages) + 1
  IN /\ Len(out.heap) <= MaxHeap
     /\ heap' = out.heap
     /\ born' = born \o out.made
     /\ last' = [op |-> "chain", this |-> r, args |-> Append(stages, fn),
                 fn |-> NoFn, site |-> "main", kind |-> out.kind,
                 value |-> out.value, thrown |-> out.thrown,
                 calls |-> log \o [i \in 1..Len(out.calls) |->
                                     [stage |-> n, call |-> out.calls[i]]]]
     /\ UNCHANGED <<hasCapture, promises, jobs>>

\* r.andThen(f1)
ChainFirst ==
  \E a \in DOMAIN heap, fn \in StageFns(heap) :
    /\ last = Idle
    /\ DoStage(a, <<>>, <<>>, a, fn)

\* ... .andThen(fn) on what the chain has returned so far
ChainNext ==
  \E fn \in StageFns(heap) :
    /\ last.op = "chain"
    /\ last.kind = "return"
    /\ Len(last.args) < MaxStages
    /\ DoStage(last.this, last.args, last.calls, last.value.n, fn)

\* ... .unwrap() on what the chain has returned
ChainUnwrap ==
  /\ last.op = "chain"
  /\ last.kind = "return"
  /\ LET cur == last.value.n
         out == IF heap[cur].cls = "Ok" THEN Ok_unwrap(heap, cur, <<>>, <<"main">>)
                ELSE Err_unwrap(heap, cur, <<>>, <<"main">>)
     IN last' = [last EXCEPT !.op = "chainUnwrap", !.fn = Fn("result", last.value),
                             !.kind = out.kind, !.value = out.value,
                             !.thrown = out.thrown]
  /\ UNCHANGED <<heap, born, hasCapture, promises, jobs>>

NextChain ==
  \/ Continue
  \/ CallOk \/ CallErr
  \/ ChainFirst \/ ChainNext \/ ChainUnwrap

SpecChain == Init /\ [][NextChain]_vars

\* ===================================================== Results as values
\* Promise.resolve(result): a promise of the caller, fulfilled with a Result
ResolveWithResult ==
  \E a \in DOMAIN heap :
    /\ last = Idle
    /\ Len(promises) < MaxPromises
    /\ promises' = Append(promises,
                          [NewPromiseRec(UserMade) EXCEPT !.state = "fulfilled",
                                                          !.value = Ref(a)])
    /\ UNCHANGED <<heap, born, hasCapture, last, jobs>>

\* resultfy(promise) for a promise of the caller
ResultfyOfResult ==
  \E i \in DOMAIN promises :
    /\ last = Idle
    /\ promises[i].made.by = "user"
    /\ DoAdapter(MaxHeap, "resultfy", NoFn, <<Prom(i)>>, "main",
                       resultfy(<<Prom(i)>>, heap, promises, jobs))

\* resultfy((r) => r)(result)
WrapResult ==
  \E a \in DOMAIN heap :
    LET w == resultfy(<<UserFn("first")>>, heap, promises, jobs).out.value
    IN /\ last = Idle
       /\ DoAdapter(MaxHeap, "wrapper", w, <<Ref(a)>>, "main",
                          wrapper(w, <<Ref(a)>>, heap, promises, jobs, <<"main">>))

NextNested ==
  \/ Continue
  \/ CallOk \/ CallErr
  \/ ResolveWithResult \/ ResultfyOfResult \/ WrapResult
  \/ RunJob

SpecNested == Init /\ [][NextNested]_vars

\* ========================================================= andThen laws
\* const a = r.andThen(f).andThen(g); const b = r.andThen(x => f(x).andThen(g)):
\* last holds the program (r, f and g), the step it has reached in site, the
\* value of that step, and every invocation so far with the form it belongs
\* to and the letter of the function invoked.
LawStep(r, fns, step, keep, form, letter, log, out) ==
  /\ heap' = out.heap
  /\ born' = born \o out.made
  /\ last' = [op |-> "associativity", this |-> r, args |-> fns, fn |-> keep,
              site |-> step, kind |-> out.kind, value |-> out.value,
              thrown |-> out.thrown,
              calls |-> log \o [i \in 1..Len(out.calls) |->
                                  [form |-> form, letter |-> letter,
                                   call |-> out.calls[i]]]]
  /\ UNCHANGED <<hasCapture, promises, jobs>>

\* r.andThen(f)
LawFirst ==
  \E r \in DOMAIN heap, f \in StageFns(heap), g \in StageFns(heap) :
    /\ last = Idle
    /\ Len(heap) <= MaxHeap
    /\ LawStep(r, <<f, g>>, "first", NoFn, "sequential", "f", <<>>,
               andThen(heap, r, f, <<"main">>))

\* ... .andThen(g): a
LawSecond ==
  /\ last.op = "associativity" /\ last.site = "first" /\ last.kind = "return"
  /\ LawStep(last.this, last.args, "second", NoFn, "sequential", "g", last.calls,
             andThen(heap, last.value.n, last.args[2], <<"main">>))

\* r.andThen(x => ...): on an Ok the callback runs and calls f(x); an Err
\* returns itself, which is b.
LawCallback ==
  /\ last.op = "associativity" /\ last.site = "second" /\ last.kind = "return"
  /\ LET r == last.this
         a == Fn("result", last.value)
     IN IF heap[r].cls = "Ok"
        THEN LawStep(r, last.args, "callback", a, "nested", "f", last.calls,
                     Apply(last.args[1], Get(heap[r], "data"), heap,
                           <<"callback", "andThen", "main">>))
        ELSE LawStep(r, last.args, "done", a, "nested", "f", last.calls,
                     Err_andThen(heap, r, NoFn, <<"main">>))

\* ... f(x).andThen(g) inside the callback, returned by it and by the outer
\* andThen: b
LawInner ==
  /\ last.op = "associativity" /\ last.site = "callback" /\ last.kind = "return"
  /\ LawStep(last.this, last.args, "done", last.fn, "nested", "g", last.calls,
             andThen(heap, last.value.n, last.args[2],
                     <<"callback", "andThen", "main">>))

\* const same = r.andThen(ok)
LawIdentity ==
  \E r \in DOMAIN heap :
    LET fn == Fn("ok", Undefined)
    IN Do("identity", r, <<fn>>, fn, "main", andThen(heap, r, fn, <<"main">>))

NextLaws ==
  \/ Continue
  \/ CallOk \/ CallErr
  \/ LawIdentity
  \/ LawFirst \/ LawSecond \/ LawCallback \/ LawInner

SpecLaws == Init /\ [][NextLaws]_vars

\* ==================================================== legacy functional API
\* ok(data = None) of the functional API
functions_ok(h, args) ==
  Return(Ref(Len(h) + 1),
         Append(h, [cls |-> "Object",
                    props |-> IF Param(args, 1) = Undefined
                              THEN [success |-> Bool(TRUE)]
                              ELSE [success |-> Bool(TRUE), data |-> args[1]]]),
         <<>>)

\* err(error = None, reason = None) of the functional API: an object
\* literal, with the stack Error.captureStackTrace(result, err) gives it
\* where the host has it
functions_err(h, args, stk) ==
  LET props == IF Param(args, 1) = Undefined
               THEN [success |-> Bool(FALSE), error |-> UnknownError]
               ELSE IF Param(args, 2) = Undefined
               THEN [success |-> Bool(FALSE), error |-> args[1]]
               ELSE [success |-> Bool(FALSE), error |-> args[1], reason |-> args[2]]
      captured == [name \in DOMAIN props \cup {"stack"} |->
                     IF name = "stack"
                     THEN captureStackTrace(<<"err">> \o stk, "err")
                     ELSE props[name]]
  IN Return(Ref(Len(h) + 1),
            Append(h, [cls |-> "Object",
                       props |-> IF hasCapture THEN captured ELSE props]),
            <<>>)

\* new ResultError(result)
ResultErrorNew(result) ==
  LET reason == Get(result, "reason")
  IN [cls |-> "ResultError",
      props |-> [name |-> Str("ResultError"),
                 message |-> Text(<<"ResultError: ">> \o ToText(Get(result, "error"))
                                    \o (IF Truthy(reason)
                                        THEN <<" - ">> \o ToText(reason)
                                        ELSE <<>>))]]

\* cases[key]: an own member, a member every object literal inherits from
\* Object.prototype (toString, which called with no receiver returns
\* '[object Undefined]'), or undefined
Member(cases, key) ==
  IF key \in DOMAIN cases THEN cases[key]
  ELSE IF key \in {<<"toString">>} THEN Fn("const", Text(<<"[object Undefined]">>))
  ELSE Undefined

\* f(...args) called from mapResult
Invoke(f, args, h, stk) ==
  LET out == Body(f, Param(args, 1), h, <<"callback", "mapResult">> \o stk)
  IN [out EXCEPT !.calls = <<[fn |-> f, args |-> args, kind |-> out.kind,
                              value |-> out.value, thrown |-> out.thrown]>>]

\* mapResult(result, cases)
mapResult(h, result, cases, stk) ==
  LET error == Get(h[result], "error")
      reason == Get(h[result], "reason")
      errorCase == Member(cases, ToText(error))
      default == Member(cases, <<"default">>)
  IN IF Truthy(Get(h[result], "success"))
     THEN Invoke(Member(cases, <<"success">>), <<Get(h[result], "data")>>, h, stk)
     ELSE IF errorCase # Undefined
     THEN Invoke(errorCase, <<error, reason>>, h, stk)
     ELSE IF default # Undefined
     THEN Invoke(default, <<error, reason>>, h, stk)
     ELSE Throw(ResultErrorNew(h[result]), h, <<>>)

\* ------------------------------------------------------- legacy: inputs
LegacyErrArgs ==
  LET labels == {Str("A"), Str("B"), Str("success"), Str("default"), Str("toString")}
  IN {<<>>} \cup {<<l>> : l \in labels} \cup {<<l, Str("why")>> : l \in labels}
\* { success, A?, default? }: the callback written under a key returns a
\* text naming its key.
AllCases ==
  {[key \in {<<"success">>} \cup extra |-> Fn("const", Text(<<"case ">> \o key))] :
     extra \in SUBSET {<<"A">>, <<"default">>}}

\* ------------------------------------------------------ legacy: program
LegacyOk ==
  \E args \in {<<>>} \cup {<<v>> : v \in Prims} :
    Do("functions.ok", 0, args, NoFn, "main", functions_ok(heap, args))

LegacyErr ==
  \E args \in LegacyErrArgs :
    Do("functions.err", 0, args, NoFn, "main", functions_err(heap, args, <<"main">>))

MapResult ==
  \E a \in DOMAIN heap, cases \in AllCases :
    Do("mapResult", a, <<cases>>, NoFn, "main",
       mapResult(heap, a, cases, <<"main">>))

NextLegacy ==
  \/ Continue
  \/ LegacyOk \/ LegacyErr
  \/ MapResult

SpecLegacy == Init /\ [][NextLegacy]_vars

\* ================================================================ claims
This == heap[last.this]
ThisIsOk == last.this \in DOMAIN heap /\ This.cls = "Ok"
ThisIsErr == last.this \in DOMAIN heap /\ This.cls = "Err"

\* C1: every Result has isOk() = ~isErr() and isOk() = success; an Ok has
\* success true, a data field and no error / reason field; an Err has
\* success false, an error label and no data field; reading the other
\* variant's field gives undefined.
C1_DiscriminantConsistency ==
  /\ \A a \in DOMAIN heap :
       LET o == heap[a] IN
       /\ Result_isOk(heap, a).value = Bool(Result_isErr(heap, a).value # Bool(TRUE))
       /\ Result_isOk(heap, a).value = Get(o, "success")
       /\ o.cls = "Ok" =>
            /\ Get(o, "success") = Bool(TRUE)
            /\ In("data", o) /\ ~In("error", o) /\ ~In("reason", o)
       /\ o.cls = "Err" =>
            /\ Get(o, "success") = Bool(FALSE)
            /\ In("error", o) /\ Get(o, "error").k = "string"
            /\ ~In("data", o)
  /\ last.op = "isOk" => last.value = Get(This, "success")
  /\ last.op = "isErr" => last.value = Bool(Get(This, "success") # Bool(TRUE))
  /\ (last.op \in {"error", "reason"} /\ ThisIsOk) => last.value = Undefined
  /\ (last.op = "data" /\ ThisIsErr) => last.value = Undefined

C1_Witness ==
  /\ last.op = "isErr" /\ ThisIsErr /\ last.value = Bool(TRUE)
  /\ \E b \in DOMAIN heap : heap[b].cls = "Ok"

\* C2: no operation changes an existing Result: every object of the heap,
\* the receiver and the arguments included, keeps all its properties (the
\* origin stack too) across every step, whether the call returns or throws.
C2_NoMutation ==
  [][\A a \in DOMAIN heap : a \in DOMAIN heap' /\ heap'[a] = heap[a]]_vars

C2_Witness ==
  /\ last.op = "unwrap" /\ ThisIsErr /\ last.kind = "throw"
  /\ last.args = <<Str("C")>>
  /\ In("stack", This)

\* C3: ok(x).unwrap() returns x, also for undefined and null, and ok()
\* unwraps to undefined without raising.
C3_OkUnwrapRoundtrip ==
  (last.op = "unwrap" /\ born[last.this].fn = "ok") =>
     /\ last.kind = "return"
     /\ last.value = Param(born[last.this].args, 1)

C3_Witness ==
  /\ last.op = "unwrap" /\ born[last.this] = [fn |-> "ok", args |-> <<>>]
  /\ last.kind = "return" /\ last.value = Undefined

\* C4: err(label, reason) builds an Err with success false, error = label
\* ('unknown' when the label is omitted) and reason = reason (undefined when
\* omitted); unwrapErr() on it returns that same Err.
C4_ErrConstruction ==
  /\ \A a \in DOMAIN heap : born[a].fn = "err" =>
       /\ heap[a].cls = "Err"
       /\ Get(heap[a], "success") = Bool(FALSE)
       /\ Get(heap[a], "error") =
            (IF Param(born[a].args, 1) = Undefined THEN Str("unknown")
             ELSE born[a].args[1])
       /\ Get(heap[a], "reason") = Param(born[a].args, 2)
  /\ (last.op = "unwrapErr" /\ born[last.this].fn = "err") =>
       /\ last.kind = "return"
       /\ last.value = Ref(last.this)

C4_Witness ==
  /\ last.op = "unwrapErr"
  /\ born[last.this] = [fn |-> "err", args |-> <<Str("B"), Str("x")>>]
  /\ last.kind = "return"

\* C5: unwrap() on an Err always throws an UnwrapError and produces no
\* value; on an Ok it always returns data and throws nothing; with or
\* without a custom label.
C5_UnwrapContract ==
  last.op = "unwrap" =>
     /\ ThisIsErr =>
          /\ last.kind = "throw"
          /\ last.thrown.cls = "UnwrapError"
          /\ last.value = Undefined
     /\ ThisIsOk =>
          /\ last.kind = "return"
          /\ last.value = Get(This, "data")
          /\ last.thrown = NoObject

C5_Witness ==
  /\ last.op = "unwrap" /\ ThisIsOk /\ last.args = <<Str("C")>>
  /\ last.kind = "return" /\ last.value = Null

\* C6: e.unwrap(c) throws an UnwrapError whose error is c for every custom
\* label c passed, and e.error when none is passed; its reason is e.reason
\* and its name 'UnwrapError'.
C6_UnwrapErrorLabel ==
  (last.op = "unwrap" /\ ThisIsErr) =>
     /\ last.kind = "throw"
     /\ Get(last.thrown, "error") =
          (IF Len(last.args) >= 1 THEN last.args[1] ELSE Get(This, "error"))
     /\ Get(last.thrown, "reason") = Get(This, "reason")
     /\ Get(last.thrown, "name") = Str("UnwrapError")

\* C7: unwrapErr on an Err returns that Err and never throws; on an Ok it
\* throws an UnwrapError whose error is the custom label when one is passed,
\* otherwise 'unwrap', and which has no reason.
C7_UnwrapErrDual ==
  last.op = "unwrapErr" =>
     /\ ThisIsErr => (last.kind = "return" /\ last.value = Ref(last.this))
     /\ ThisIsOk =>
          /\ last.kind = "throw"
          /\ last.thrown.cls = "UnwrapError"
          /\ Get(last.thrown, "error") =
               (IF Len(last.args) >= 1 THEN last.args[1] ELSE Str("unwrap"))
          /\ ~In("reason", last.thrown)

\* C8: unwrapOr(d) never throws; on an Err it returns d, on an Ok(x) it
\* returns x, also when x is undefined or null.
C8_UnwrapOr ==
  last.op = "unwrapOr" =>
     /\ last.kind = "return"
     /\ ThisIsErr => last.value = last.args[1]
     /\ ThisIsOk => last.value = Get(This, "data")
     /\ (ThisIsOk /\ born[last.this].fn = "ok") =>
          last.value = Param(born[last.this].args, 1)

C8_Witness ==
  /\ last.op = "unwrapOr" /\ ThisIsOk
  /\ born[last.this] = [fn |-> "ok", args |-> <<Null>>]
  /\ last.args = <<Str("x")>> /\ last.value = Null

\* What one invocation of callback fn with the single argument arg must
\* have logged, for the callbacks whose result is known from their shape.
CalledOnceWith(arg) ==
  /\ Len(last.calls) = 1
  /\ last.calls[1].fn = last.fn
  /\ last.calls[1].args = <<arg>>
  /\ last.kind = last.calls[1].kind
  /\ last.value = last.calls[1].value
  /\ last.thrown = last.calls[1].thrown
  /\ last.fn.kind = "const" => (last.kind = "return" /\ last.value = last.fn.v)
  /\ last.fn.kind = "id" => (last.kind = "return" /\ last.value = arg)
  /\ last.fn.kind = "throw" => (last.kind = "throw" /\ last.thrown = PlainError)

\* C9: unwrapOrElse(f) on an Ok returns data without invoking f; on an Err
\* it invokes f once with the Err itself and returns f's result; it throws
\* only what f throws.
C9_UnwrapOrElse ==
  last.op = "unwrapOrElse" =>
     /\ ThisIsOk =>
          /\ last.calls = <<>>
          /\ last.kind = "return"
          /\ last.value = Get(This, "data")
     /\ ThisIsErr => CalledOnceWith(Ref(last.this))

C9_Witness ==
  /\ last.op = "unwrapOrElse" /\ ThisIsErr
  /\ last.fn = Fn("id", Undefined)
  /\ last.value = Ref(last.this)

\* C10: unwrapErrOr(d) and unwrapErrOrElse(f) on an Err return the Err
\* itself and invoke nothing; on an Ok unwrapErrOr returns d and
\* unwrapErrOrElse invokes f once with the Ok itself and returns f's result;
\* neither throws anything of its own (only what f throws leaves the call).
C10_UnwrapErrOrDuals ==
  /\ last.op = "unwrapErrOr" =>
       /\ last.kind = "return" /\ last.calls = <<>>
       /\ ThisIsErr => last.value = Ref(last.this)
       /\ ThisIsOk => last.value = last.args[1]
  /\ last.op = "unwrapErrOrElse" =>
       /\ ThisIsErr =>
            /\ last.calls = <<>>
            /\ last.kind = "return"
            /\ last.value = Ref(last.this)
       /\ ThisIsOk => CalledOnceWith(Ref(last.this))

C10_Witness ==
  /\ last.op = "unwrapErrOrElse" /\ ThisIsOk
  /\ last.fn = Fn("const", Str("x"))
  /\ last.value = Str("x") /\ Len(last.calls) = 1

\* Text t has the segments of text u somewhere, in order and adjacent.
Mentions(t, u) ==
  \E i \in 0..(Len(t) - Len(u)) : SubSeq(t, i + 1, i + Len(u)) = u

\* C11: expect(expected, custom) on an Err with that label returns the Err
\* itself; on another Err and on every Ok it throws an UnwrapError; on a
\* label mismatch the message mentions the expected and the actual label;
\* the UnwrapError's error is the custom label when given, otherwise the
\* Err's label, or 'unwrap' for an Ok.
C11_Expect ==
  last.op = "expect" =>
     /\ (ThisIsErr /\ Get(This, "error") = last.args[1]) =>
          (last.kind = "return" /\ last.value = Ref(last.this))
     /\ (ThisIsOk \/ Get(This, "error") # last.args[1]) =>
          /\ last.kind = "throw"
          /\ last.thrown.cls = "UnwrapError"
          /\ Get(last.thrown, "error") =
               (IF Len(last.args) >= 2 THEN last.args[2]
                ELSE IF ThisIsErr THEN Get(This, "error") ELSE Str("unwrap"))
          /\ ThisIsErr =>
               /\ Mentions(Get(last.thrown, "message").s, last.args[1].s)
               /\ Mentions(Get(last.thrown, "message").s, Get(This, "error").s)

\* C12: andThen on an Err and orElse on an Ok invoke nothing, create
\* nothing and return the receiver itself.
C12_ShortCircuit ==
  [][((last'.op = "andThen" /\ heap[last'.this].cls = "Err")
        \/ (last'.op = "orElse" /\ heap[last'.this].cls = "Ok")) =>
       /\ last'.calls = <<>>
       /\ last'.kind = "return"
       /\ last'.value = Ref(last'.this)
       /\ heap' = heap]_vars

C12_Witness ==
  /\ last.op = "andThen" /\ ThisIsErr /\ In("stack", This)
  /\ last.fn = Fn("ok", Undefined)
  /\ last.value = Ref(last.this)

\* One invocation of a Result-returning callback: as CalledOnceWith, and
\* x => ok(x) yields a new Ok holding arg, () => err('B') a new Err 'B'.
ResultCalledOnceWith(arg) ==
  /\ CalledOnceWith(arg)
  /\ last.fn.kind = "ok" =>
       /\ last.kind = "return" /\ last.value = Ref(Len(heap))
       /\ heap[Len(heap)].cls = "Ok"
       /\ Get(heap[Len(heap)], "data") = arg
  /\ last.fn.kind = "err" =>
       /\ last.kind = "return" /\ last.value = Ref(Len(heap))
       /\ heap[Len(heap)].cls = "Err"
       /\ Get(heap[Len(heap)], "error") = Str("B")

\* C13: andThen on an Ok invokes f once with the payload and returns the
\* Result f returned, unwrapped; an Err returned by f is the outcome.
C13_AndThenBind ==
  (last.op = "andThen" /\ ThisIsOk) => ResultCalledOnceWith(Get(This, "data"))

C13_Witness ==
  /\ last.op = "andThen" /\ ThisIsOk /\ last.fn = Fn("err", Undefined)
  /\ last.kind = "return" /\ heap[last.value.n].cls = "Err"
  /\ last.calls[1].args = <<Null>>

C15_AndOr ==
  /\ last.op = "and" =>
       /\ last.kind = "return" /\ last.calls = <<>>
       /\ last.value = (IF ThisIsOk THEN last.args[1] ELSE Ref(last.this))
       /\ (heap[last.value.n].cls = "Ok") <=>
            (This.cls = "Ok" /\ heap[last.args[1].n].cls = "Ok")
  /\ last.op = "or" =>
       /\ last.kind = "return" /\ last.calls = <<>>
       /\ last.value = (IF ThisIsOk THEN Ref(last.this) ELSE last.args[1])
       /\ (heap[last.value.n].cls = "Ok") <=>
            (This.cls = "Ok" \/ heap[last.args[1].n].cls = "Ok")

C15_Witness ==
  /\ last.op = "and" /\ ThisIsOk
  /\ last.args[1] # Ref(last.this) /\ heap[last.args[1].n].cls = "Err"
  /\ last.value = last.args[1]

\* C16: map invokes fn once on both variants, with the whole Result, and
\* returns fn's value as it is.
C16_Map ==
  last.op = "map" => CalledOnceWith(Ref(last.this))

C16_Witness ==
  /\ last.op = "map" /\ ThisIsErr /\ last.fn = Fn("const", Str("x"))
  /\ last.value = Str("x") /\ Len(last.calls) = 1

\* --------------------------------------------------------------- adapter
\* The label a caller gave to resultfy, 'unknown' when none was given.
LabelOf(given) == IF given = <<>> THEN UnknownError ELSE given[1]

IsOkOf(v, data) ==
  /\ v.k = "object" /\ v.n \in DOMAIN heap
  /\ heap[v.n].cls = "Ok" /\ Get(heap[v.n], "data") = data

IsErrOf(v, error, reason) ==
  /\ v.k = "object" /\ v.n \in DOMAIN heap
  /\ heap[v.n].cls = "Err"
  /\ Get(heap[v.n], "error") = error /\ Get(heap[v.n], "reason") = reason

\* Promise i, derived from its source, is never rejected, and once settled
\* it holds Ok(v) for a source fulfilled with v and Err(label, q) for a
\* source rejected with q.
ResolvesToResult(i) ==
  LET p == promises[i]
      src == promises[p.made.src]
  IN /\ p.state # "rejected"
     /\ p.state = "fulfilled" =>
          /\ src.state # "pending"
          /\ src.state = "fulfilled" => IsOkOf(p.value, src.value)
          /\ src.state = "rejected" =>
               IsErrOf(p.value, LabelOf(p.made.given), src.value)

\* C17: resultfy(promise, label?) returns a promise that never rejects; it
\* resolves to Ok(v) when the wrapped promise fulfils with v and to
\* Err(label or 'unknown', q) when the wrapped promise rejects with q.
C17_ResultfyPromise ==
  /\ \A i \in DOMAIN promises :
       promises[i].made.by = "resultfy" => ResolvesToResult(i)
  /\ (last.op = "resultfy" /\ last.args[1].k = "promise") =>
       /\ last.kind = "return"
       /\ last.value.k = "promise"
       /\ last.value.n \in DOMAIN promises
       /\ promises[last.value.n].made
            = [by |-> "resultfy", src |-> last.args[1].n, given |-> Tail(last.args)]

C17_Witness ==
  \E i \in DOMAIN promises :
    /\ promises[i].made.by = "resultfy"
    /\ promises[i].made.given = <<EmptyStr>>
    /\ promises[i].state = "fulfilled"
    /\ promises[promises[i].made.src].state = "rejected"

\* C18: the wrapper resultfy(f, label?) returns for a function f never
\* throws; it calls f once with its own arguments; it returns Ok(v) when f
\* returns a value v that is not a promise (undefined and null included) and
\* Err(label or 'unknown', e) when f throws e.
C18_WrapperSync ==
  last.op = "wrapper" =>
    /\ last.kind = "return"
    /\ Len(last.calls) = 1
    /\ last.calls[1].fn = last.fn.fn
    /\ last.calls[1].args = last.args
    /\ (last.fn.fn = UserFn("first") /\ Param(last.args, 1).k # "promise") =>
         IsOkOf(last.value, Param(last.args, 1))
    /\ last.calls[1].kind = "throw" =>
         IsErrOf(last.value, LabelOf(last.fn.given), last.calls[1].value)

C18_Witness ==
  /\ last.op = "wrapper"
  /\ last.fn.given = <<EmptyStr>>
  /\ last.calls[1].kind = "throw"
  /\ last.value.k = "object"

\* C19: when the wrapped function returns a promise, the wrapper returns a
\* promise that never rejects and resolves to Ok(value) on fulfilment and to
\* Err(label or 'unknown', reason) on rejection, as in the direct case.
C19_WrapperAsync ==
  /\ \A i \in DOMAIN promises :
       promises[i].made.by = "wrapper" => ResolvesToResult(i)
  /\ (last.op = "wrapper" /\ last.calls[1].kind = "return"
        /\ last.calls[1].value.k = "promise") =>
       /\ last.kind = "return"
       /\ last.value.k = "promise"
       /\ last.value.n \in DOMAIN promises
       /\ last.value # last.calls[1].value
       /\ promises[last.value.n].made
            = [by |-> "wrapper", src |-> last.calls[1].value.n,
               given |-> last.fn.given]

C19_Witness ==
  \E i \in DOMAIN promises :
    /\ promises[i].made.by = "wrapper"
    /\ promises[i].made.given = <<Str("L")>>
    /\ promises[i].state = "fulfilled"
    /\ promises[promises[i].made.src].state = "rejected"

\* C20: resultfy called with a value that is neither a function nor a
\* promise throws a plain Error with the message 'fn must be a function or a
\* promise' (not an UnwrapError), returns nothing and makes no Result, no
\* promise and no job.
C20_ResultfyMisuse ==
  [][(last' # last /\ last'.op = "resultfy"
        /\ last'.args[1].k \notin {"function", "promise"}) =>
       /\ last'.kind = "throw"
       /\ last'.value = Undefined
       /\ last'.thrown.cls = "Error"
       /\ Get(last'.thrown, "message") = Str("fn must be a function or a promise")
       /\ heap' = heap /\ promises' = promises /\ jobs' = jobs]_vars

C20_Witness ==
  /\ last.op = "resultfy"
  /\ last.args[1] = OddThen
  /\ last.kind = "throw"

\* ------------------------------------------------------ curried handlers
\* C21: every call of the function errReject(label) returns with reason r
\* returns a new Err with error label and reason r, and the Errs of earlier
\* calls keep theirs; okFulfilled(mapFn)(d) calls mapFn once with d and
\* returns Ok of what mapFn returned.
C21_CurriedHandlers ==
  /\ last.op = "rejectWrapper" =>
       /\ last.kind = "return"
       /\ last.value = Ref(Len(heap))
       /\ IsErrOf(last.value, last.fn.given[1], last.args[1])
  /\ \A a \in DOMAIN heap :
       born[a].fn = "Err" =>
         /\ heap[a].cls = "Err"
         /\ Get(heap[a], "error") = born[a].args[1]
         /\ Get(heap[a], "reason") = born[a].args[2]
  /\ last.op = "fulfilled" =>
       /\ Len(last.calls) = 1
       /\ last.calls[1].fn = last.fn.map
       /\ last.calls[1].args = last.args
       /\ last.kind = last.calls[1].kind
       /\ last.kind = "return" =>
            /\ last.value = Ref(Len(heap))
            /\ IsOkOf(last.value, last.calls[1].value)

C21_Witness ==
  /\ last.op = "rejectWrapper"
  /\ Len(heap) = 2
  /\ heap[1].cls = "Err" /\ heap[2].cls = "Err"
  /\ Get(heap[1], "reason") # Get(heap[2], "reason")

\* ----------------------------------------------------------- provenance
\* The description an unwrap or expect on an Err puts first in the message.
Description ==
  IF last.op = "unwrap" THEN <<"Could not unwrap error">>
  ELSE <<"Expected error ">> \o ToText(last.args[1]) \o <<", but got error ">>
         \o ToText(Get(This, "error"))

\* C22: when unwrap() or a failing expect() is called on an Err that carries
\* an origin stack, the UnwrapError message is the description with the
\* label, then the stack of the call site without the failing call's own
\* frame, then the Err's origin stack under 'Error created at'; the
\* UnwrapError's stack is the call-site stack; the origin stack is the one
\* captured below err when the Err was constructed.
C22_Provenance ==
  (last.op \in {"unwrap", "expect"} /\ last.kind = "throw" /\ ThisIsErr
     /\ In("stack", This)) =>
    LET origin == Get(This, "stack").s
    IN /\ Head(origin) = "Error\n"
       /\ \A i \in DOMAIN origin : origin[i] \notin {"Err", "err"}
       /\ Get(last.thrown, "stack") = Text(<<"Error\n", last.site>>)
       /\ Get(last.thrown, "message").s
            = Description \o <<" '">> \o ToText(Get(last.thrown, "error")) \o <<"'">>
                \o <<"\n", last.site>>
                \o <<" ", "\n\nError created at\n">> \o Tail(origin)

C22_Witness ==
  /\ last.op = "expect"
  /\ last.kind = "throw"
  /\ ThisIsErr
  /\ In("stack", This)
  /\ Len(Get(This, "stack").s) > 2

\* The description a failing unwrap, unwrapErr or expect puts first in the
\* message.
FailureDescription ==
  IF last.op \in {"unwrap", "unwrapErr"} THEN <<"Could not unwrap error">>
  ELSE IF ThisIsOk
  THEN <<"Expected error ">> \o ToText(last.args[1]) \o <<", but got success">>
  ELSE <<"Expected error ">> \o ToText(last.args[1]) \o <<", but got error ">>
         \o ToText(Get(This, "error"))

\* C23: on a runtime without stack capture no Result has a stack, a failing
\* unwrap, unwrapErr or expect still throws an UnwrapError with the same
\* name and the Err's reason, its stack is undefined, and its message is the
\* description with the label and carries no stack section.
C23_GracefulDegradation ==
  ~hasCapture =>
    /\ \A a \in DOMAIN heap : Get(heap[a], "stack") = Undefined
    /\ (last.op \in {"unwrap", "unwrapErr", "expect"} /\ last.kind = "throw") =>
         /\ last.thrown.cls = "UnwrapError"
         /\ Get(last.thrown, "name") = Str("UnwrapError")
         /\ Get(last.thrown, "reason") = Get(This, "reason")
         /\ Get(last.thrown, "stack") = Undefined
         /\ Get(last.thrown, "message").s
              = FailureDescription \o <<" '">>
                  \o ToText(Get(last.thrown, "error")) \o <<"'">>

\* ------------------------------------------------ extraction in callbacks
\* An UnwrapError was raised inside the callback or wrapped function of the
\* caller's last call.
RaisedInside ==
  /\ Len(last.calls) = 1
  /\ last.calls[1].kind = "throw"
  /\ IF last.op = "wrapper"
     THEN last.calls[1].value.s = <<"caught">>
            /\ last.calls[1].value.obj.cls = "UnwrapError"
     ELSE last.calls[1].thrown.cls = "UnwrapError"

TheRaised ==
  IF last.op = "wrapper" THEN last.calls[1].value.obj ELSE last.calls[1].thrown

\* C24 as stated: an UnwrapError raised by unwrap, unwrapErr or a failing
\* expect inside a callback of andThen, orElse, map, unwrapOrElse or
\* unwrapErrOrElse, or inside a function wrapped by resultfy, reaches the
\* caller as that exception.
C24_NeverCaught ==
  RaisedInside => (last.kind = "throw" /\ last.thrown = TheRaised)

\* C24 amended: an UnwrapError raised inside a callback of andThen, orElse,
\* map, unwrapOrElse or unwrapErrOrElse reaches the caller as that
\* exception; raised inside a function wrapped by resultfy it is caught by
\* the wrapper, which returns an Err with the wrapper's label and the
\* UnwrapError as reason.
C24_CaughtOnlyByResultfy ==
  RaisedInside =>
    IF last.op = "wrapper"
    THEN /\ last.kind = "return"
         /\ IsErrOf(last.value, LabelOf(last.fn.given), Caught(TheRaised))
    ELSE last.kind = "throw" /\ last.thrown = TheRaised

C24_Witness ==
  /\ RaisedInside
  /\ last.op = "map"
  /\ last.kind = "throw"
  /\ Get(last.thrown, "error") = Str("unwrap")

\* ----------------------------------------------------------------- orElse
\* C25: the callback passed to orElse on an Err is called with the Err's
\* error label.
C25_OrElseReceivesLabel ==
  (last.op = "orElse" /\ ThisIsErr) =>
    /\ Len(last.calls) = 1
    /\ last.calls[1].args = <<Get(This, "error")>>

\* ----------------------------------------------------------------- chains
\* The stages the chain has invoked, in the order of their invocation.
Invoked == [i \in 1..Len(last.calls) |-> last.calls[i].stage]

IsErrRef(v) == v.k = "object" /\ v.n \in DOMAIN heap /\ heap[v.n].cls = "Err"

\* The stages that returned an Err.
FailedStages ==
  {i \in 1..Len(last.calls) :
     last.calls[i].call.kind = "return" /\ IsErrRef(last.calls[i].call.value)}

\* The first failure of the chain: r itself when r is an Err, otherwise the
\* Err the first failing stage returned; 0 when nothing has failed.
FirstFailure ==
  IF heap[last.this].cls = "Err" THEN last.this
  ELSE IF FailedStages = {} THEN 0
  ELSE last.calls[CHOOSE i \in FailedStages : \A k \in FailedStages : i <= k].call.value.n

\* The Result the chain returned (before a final unwrap).
ChainValue == IF last.op = "chain" THEN last.value ELSE last.fn.v

\* What a chain has done so far: stages invoked in order, each at most
\* once; after the first failure no stage invoked, the chain's value is
\* that Err and a final unwrap() reports its label, reason and origin stack.
ChainPropagates ==
  (last.op \in {"chain", "chainUnwrap"}) =>
    /\ \A i, k \in 1..Len(Invoked) : i < k => Invoked[i] < Invoked[k]
    /\ \A i \in 1..Len(Invoked) : Invoked[i] \in 1..Len(last.args)
    /\ \A i \in 1..Len(last.calls) :
         last.calls[i].call.fn = last.args[last.calls[i].stage]
    /\ FirstFailure # 0 =>
         /\ ChainValue = Ref(FirstFailure)
         /\ heap[last.this].cls = "Err" => last.calls = <<>>
         /\ heap[last.this].cls = "Ok" =>
              IsErrRef(last.calls[Len(last.calls)].call.value)
         /\ last.op = "chainUnwrap" =>
              /\ last.kind = "throw"
              /\ last.thrown.cls = "UnwrapError"
              /\ Get(last.thrown, "error") = Get(heap[FirstFailure], "error")
              /\ Get(last.thrown, "reason") = Get(heap[FirstFailure], "reason")
              /\ hasCapture =>
                   Mentions(Get(last.thrown, "message").s,
                            <<"\n\nError created at\n">>
                              \o Tail(Get(heap[FirstFailure], "stack").s))

\* C26: in r.andThen(f1)...andThen(fn) the stages are invoked in order,
\* each at most once; once r or a stage's return is an Err no later stage
\* is invoked and the chain's value is that very Err, so a final unwrap()
\* throws an UnwrapError with that Err's label and reason and with its
\* origin stack in the message; no step of the chain modifies a Result that
\* exists.
C26_ChainPropagation ==
  [][(last'.op \in {"chain", "chainUnwrap"}) =>
       /\ ChainPropagates'
       /\ \A a \in DOMAIN heap : a \in DOMAIN heap' /\ heap'[a] = heap[a]]_vars

C26_Witness ==
  /\ last.op = "chainUnwrap"
  /\ Len(last.args) = 2
  /\ heap[last.this].cls = "Ok"
  /\ Invoked = <<1>>
  /\ last.kind = "throw"

\* --------------------------------------------------------------- ordering
IsDerived(i) == i \in DOMAIN promises /\ promises[i].made.by # "user"

SourceOf(i) == promises[promises[i].made.src]

\* A wrapper call has invoked the wrapped function exactly once, and a
\* derived promise is pending while its source is pending.
InOrder ==
  /\ last.op = "wrapper" => Len(last.calls) = 1
  /\ \A i \in DOMAIN promises :
       (IsDerived(i) /\ SourceOf(i).state = "pending") =>
         promises[i].state = "pending"

\* C27: the wrapped function is invoked exactly once per wrapper call; the
\* promise returned for a wrapped promise stays pending while the wrapped
\* promise is pending, settles once, and once the wrapped promise has
\* settled it eventually fulfils; no step of the adapter settles or changes
\* the wrapped promise.
C27_NoReorderNoCancel ==
  /\ []InOrder
  /\ [][\A i \in DOMAIN promises :
          promises[i].state # "pending" =>
            /\ promises'[i].state = promises[i].state
            /\ promises'[i].value = promises[i].value]_vars
  /\ [][(last' # last \/ heap' # heap) =>
          \A i \in DOMAIN promises :
            promises[i].made.by = "user" =>
              /\ promises'[i].state = promises[i].state
              /\ promises'[i].value = promises[i].value]_vars
  /\ \A i \in 1..MaxPromises :
       (IsDerived(i) /\ SourceOf(i).state # "pending")
         ~> (i \in DOMAIN promises /\ promises[i].state = "fulfilled")

C27_Witness ==
  \E i \in DOMAIN promises :
    /\ promises[i].made.by = "resultfy"
    /\ promises[i].made.given = <<>>
    /\ promises[i].state = "fulfilled"
    /\ SourceOf(i).state = "fulfilled"

\* ------------------------------------------------------ Results as values
\* v is a new Ok whose data is the Result r itself.
WrapsResult(v, r) ==
  /\ IsOkOf(v, r)
  /\ v # r
  /\ Get(heap[v.n], "success") = Bool(TRUE)
  /\ ~In("error", heap[v.n])

\* C28: when the wrapped function returns a Result, or the wrapped promise
\* fulfils with one, an Err included, the adapter yields an Ok whose data is
\* that Result: success is true and the inner Result is untouched.
C28_NeverFlattens ==
  /\ (last.op = "wrapper" /\ IsResult(heap, last.calls[1].value)) =>
       (last.kind = "return" /\ WrapsResult(last.value, last.calls[1].value))
  /\ \A i \in DOMAIN promises :
       (IsDerived(i) /\ promises[i].state = "fulfilled"
          /\ SourceOf(i).state = "fulfilled" /\ IsResult(heap, SourceOf(i).value)) =>
         WrapsResult(promises[i].value, SourceOf(i).value)

C28_Witness ==
  \E i \in DOMAIN promises :
    /\ IsDerived(i)
    /\ promises[i].state = "fulfilled"
    /\ IsErrRef(SourceOf(i).value)

\* --------------------------------------------------------- andThen laws
\* Results a and b have the same variant and the same data, or the same
\* label and reason.
SameResult(a, b) ==
  /\ heap[a].cls = heap[b].cls
  /\ Get(heap[a], "success") = Get(heap[b], "success")
  /\ IF heap[a].cls = "Ok"
     THEN Get(heap[a], "data") = Get(heap[b], "data")
     ELSE /\ Get(heap[a], "error") = Get(heap[b], "error")
          /\ Get(heap[a], "reason") = Get(heap[b], "reason")

\* How many times the function named letter ran in one form of the law.
TimesRun(form, letter) ==
  Cardinality({i \in DOMAIN last.calls :
                 last.calls[i].form = form /\ last.calls[i].letter = letter})

\* C29: andThen satisfies the monad laws: r.andThen(ok) has the variant and
\* the data, or label and reason, of r; r.andThen(f).andThen(g) and
\* r.andThen(x => f(x).andThen(g)) have the same outcome, and f and g are
\* each invoked the same number of times in both forms.
C29_MonadLaws ==
  /\ last.op = "identity" =>
       /\ last.kind = "return"
       /\ IsResult(heap, last.value)
       /\ SameResult(last.value.n, last.this)
  /\ (last.op = "associativity" /\ last.site = "done") =>
       /\ last.kind = "return"
       /\ IsResult(heap, last.value)
       /\ IsResult(heap, last.fn.v)
       /\ SameResult(last.value.n, last.fn.v.n)
       /\ \A letter \in {"f", "g"} :
            TimesRun("sequential", letter) = TimesRun("nested", letter)

C29_Witness ==
  /\ last.op = "associativity"
  /\ last.site = "done"
  /\ heap[last.this].cls = "Ok"
  /\ last.args[1].kind = "ok"
  /\ last.args[2].kind = "err"
  /\ TimesRun("nested", "f") = 1
  /\ TimesRun("nested", "g") = 1
  /\ IsErrRef(last.value)
  /\ last.fn.v # last.value

\* ------------------------------------------------- legacy functional API
\* The callback of cases written for a failure's label: an own member of
\* cases under the label, the success callback apart.
KeyedCase(cases, error) ==
  IF ToText(error) \in DOMAIN cases \ {<<"success">>}
  THEN cases[ToText(error)] ELSE Undefined

\* mapResult has invoked f with args and nothing else, and returned.
InvokedOnly(f, args) ==
  /\ last.kind = "return"
  /\ Len(last.calls) = 1
  /\ last.calls[1].fn = f
  /\ last.calls[1].args = args

\* C30: for every failure, whatever its label ('success' and 'default'
\* included), mapResult never invokes the success callback: it invokes the
\* callback keyed by the label with (error, reason), else the default
\* callback with (error, reason), else throws ResultError; the success
\* callback is invoked, with the data, exactly when result.success is true.
C30_MapResult ==
  last.op = "mapResult" =>
    LET r == heap[last.this]
        cases == last.args[1]
        error == Get(r, "error")
        reason == Get(r, "reason")
        keyed == KeyedCase(cases, error)
        default == IF <<"default">> \in DOMAIN cases
                   THEN cases[<<"default">>] ELSE Undefined
    IN IF Get(r, "success") = Bool(TRUE)
       THEN InvokedOnly(cases[<<"success">>], <<Get(r, "data")>>)
       ELSE /\ \A i \in DOMAIN last.calls :
                 last.calls[i].fn # cases[<<"success">>]
            /\ IF keyed # Undefined THEN InvokedOnly(keyed, <<error, reason>>)
               ELSE IF default # Undefined
               THEN InvokedOnly(default, <<error, reason>>)
               ELSE /\ last.kind = "throw"
                    /\ last.thrown.cls = "ResultError"
                    /\ last.calls = <<>>

====
